---- MODULE Spec2Model ----
(***************************************************************************)
(* A model of the double-entry ledger: the accounts, transactions and      *)
(* transaction_entries tables of src/src/db.ts and the HTTP operations of  *)
(* src/src/routes.ts that read and write them.                             *)
(*                                                                         *)
(* Amounts and balances are JavaScript numbers in the source.  They are    *)
(* modelled as exact fixed-point quantities, counted in units of 0.00001,  *)
(* so the tolerance 0.001 of validateEntriesBalance is 100 units.          *)
(* Rounding of binary floating point is outside the model.                 *)
(*                                                                         *)
(* Every handler of the source is synchronous (better-sqlite3 blocks, no   *)
(* await between the first read and the last write of a request) and the   *)
(* database is a single in-memory connection, so a handler is one atomic   *)
(* step and concurrent requests are handled in some serial order.          *)
(***************************************************************************)
EXTENDS Integers, Sequences, FiniteSets, TLC

VARIABLES
    accounts,       \* table accounts: id -> [name, balance, direction]
    transactions,   \* table transactions, in rowid order: <<[id, name]>>
    entries,        \* table transaction_entries, in rowid order
    opening,        \* history: id -> balance the account was created with
    commits,        \* history: per commit, its transaction id and the table
                    \* accounts the committing call found
    lastOp,         \* the request just handled and its response, until it is sent
    reads           \* history: id -> what the getAccount calls recorded for it
                    \* returned since the last commit before them

vars == <<accounts, transactions, entries, opening, commits, lastOp, reads>>

----------------------------------------------------------------------------
(* Bounds of the model *)

\* longest entries array a request carries
MaxEntries == 2
\* most rows the table transaction_entries holds
MaxRows == 4
\* most accounts created where ids are drawn without end
MaxAccounts == 2

(* Program constants *)

\* 0.001, in units of 0.00001
Tolerance == 100

DEBIT == "debit"
CREDIT == "credit"
Direction == {DEBIT, CREDIT}

----------------------------------------------------------------------------
(* Identifiers.  A client supplies an id or leaves it out (NoId); an id     *)
(* left out is drawn from randomUUID, which never repeats a value.          *)

NoId == <<"none", 0>>
ClientId(n) == <<"id", n>>
Uuid(n) == <<"uuid", n>>

AccountIds == {ClientId(1), ClientId(2)}
TransactionIds == {ClientId(11)}
EntryIds == {}
Amounts == {30, 130}
\* the name of a request body: <<>> when it is left out, <<value>> otherwise
Names == {<<>>}

\* input.id || randomUUID(): the uuid drawn is one no row and no earlier
\* draw of the same request uses
randomUUID(used) ==
    Uuid(CHOOSE n \in 1..(Cardinality(used) + 1) :
            /\ Uuid(n) \notin used
            /\ \A m \in 1..(n - 1) : Uuid(m) \in used)

Abs(x) == IF x < 0 THEN -x ELSE x

Range(s) == {s[i] : i \in 1..Len(s)}

----------------------------------------------------------------------------
(* Request bodies *)

EntryInputs ==
    [id : {NoId} \cup EntryIds, account_id : AccountIds,
     amount : Amounts, direction : Direction]

RECURSIVE SeqsUpTo(_, _)
SeqsUpTo(S, n) ==
    IF n = 0 THEN {<<>>}
    ELSE LET shorter == SeqsUpTo(S, n - 1)
         IN shorter \cup {Append(s, x) : s \in {t \in shorter : Len(t) = n - 1}, x \in S}

TransactionInputs ==
    [id : {NoId} \cup TransactionIds, name : Names,
     entries : SeqsUpTo(EntryInputs, MaxEntries)]

\* bodies of POST /accounts.  A field that is optional is <<>> when it is
\* left out and <<value>> when it is supplied
AccountInputs ==
    {[id |-> ClientId(1), name |-> <<>>, balance |-> <<500>>, direction |-> DEBIT],
     [id |-> ClientId(1), name |-> <<>>, balance |-> <<0>>, direction |-> CREDIT],
     [id |-> ClientId(2), name |-> <<>>, balance |-> <<>>, direction |-> CREDIT]}

----------------------------------------------------------------------------
(* Errors and responses.  An Error of the source carries a message; the    *)
(* model keeps the kind of the message and the values it is built from.    *)

NoError == [kind |-> "none", debits |-> 0, credits |-> 0, account_id |-> NoId]
SchemaError(k) == [kind |-> k, debits |-> 0, credits |-> 0, account_id |-> NoId]
UnbalancedError(d, c) ==
    [kind |-> "Unbalanced", debits |-> d, credits |-> c, account_id |-> NoId]
AccountNotFoundError(id) ==
    [kind |-> "AccountNotFound", debits |-> 0, credits |-> 0, account_id |-> id]
SqliteError == [kind |-> "SqliteError", debits |-> 0, credits |-> 0, account_id |-> NoId]

----------------------------------------------------------------------------
(* AccountsRepository *)

\* SELECT ... WHERE id = ?  returning row || null: <<row>> or <<>>
findById(accts, id) ==
    IF id \in DOMAIN accts
    THEN <<[id |-> id, name |-> accts[id].name, balance |-> accts[id].balance,
            direction |-> accts[id].direction]>>
    ELSE <<>>

\* a bug: the balance is read from a copy taken when the account was
\* created, not from the table
getAccount_Stale(accts, id) ==
    IF id \in DOMAIN accts
    THEN <<[id |-> id, name |-> accts[id].name, balance |-> opening[id],
            direction |-> accts[id].direction]>>
    ELSE <<>>

\* AccountsService.getAccount
getAccount(accts, id) == findById(accts, id)

\* a bug: the UPDATE has no WHERE, every account gets the balance
updateBalance_NoWhere(accts, update) ==
    [id \in DOMAIN accts |-> [accts[id] EXCEPT !.balance = update.balance]]

\* one UPDATE accounts SET balance = ? WHERE id = ?
updateBalance(accts, update) ==
    IF update.id \in DOMAIN accts
    THEN [accts EXCEPT ![update.id].balance = update.balance]
    ELSE accts

----------------------------------------------------------------------------
(* TransactionsService.validateEntriesBalance *)

RECURSIVE debitTotal(_)
debitTotal(es) ==
    IF es = <<>> THEN 0
    ELSE debitTotal(SubSeq(es, 1, Len(es) - 1))
         + (IF es[Len(es)].direction = DEBIT THEN es[Len(es)].amount ELSE 0)

RECURSIVE creditTotal(_)
creditTotal(es) ==
    IF es = <<>> THEN 0
    ELSE creditTotal(SubSeq(es, 1, Len(es) - 1))
         + (IF es[Len(es)].direction = DEBIT THEN 0
            ELSE IF es[Len(es)].direction = CREDIT THEN es[Len(es)].amount ELSE 0)

\* a bug: a difference of exactly the tolerance is refused too
entriesUnbalanced_AtLeast(es) == Abs(debitTotal(es) - creditTotal(es)) >= Tolerance

\* a bug: the difference is compared without Math.abs
entriesUnbalanced_Signed(es) == debitTotal(es) - creditTotal(es) > Tolerance

\* TRUE when validateEntriesBalance throws
entriesUnbalanced(es) == Abs(debitTotal(es) - creditTotal(es)) > Tolerance

\* a bug: the totals are computed and never compared
validateEntriesBalance_Skipped(es) == NoError

validateEntriesBalance(es) ==
    IF entriesUnbalanced(es)
    THEN UnbalancedError(debitTotal(es), creditTotal(es))
    ELSE NoError

----------------------------------------------------------------------------
(* TransactionsService.calculateBalanceUpdates.  balanceMap is the Map of  *)
(* the source as the sequence of its [id, balance] items in insertion      *)
(* order, which is the order Array.from(balanceMap.entries()) yields.      *)

mapHas(balanceMap, id) == \E i \in 1..Len(balanceMap) : balanceMap[i].id = id

mapGet(balanceMap, id) ==
    balanceMap[CHOOSE i \in 1..Len(balanceMap) : balanceMap[i].id = id].balance

\* a bug: every entry adds an item, one per entry and not one per account
mapSet_Append(balanceMap, id, balance) ==
    Append(balanceMap, [id |-> id, balance |-> balance])

mapSet(balanceMap, id, balance) ==
    IF mapHas(balanceMap, id)
    THEN [i \in 1..Len(balanceMap) |->
            IF balanceMap[i].id = id THEN [id |-> id, balance |-> balance]
            ELSE balanceMap[i]]
    ELSE Append(balanceMap, [id |-> id, balance |-> balance])

\* a bug: the entry's amount is added whatever the account's direction
newBalance_NoDirection(current, entry, account) ==
    current + entry.amount

\* the balance one entry leaves on its account
newBalance(current, entry, account) ==
    IF entry.direction = account.direction
    THEN current + entry.amount
    ELSE current - entry.amount

\* a bug: the first entry of an account starts from zero
currentBalance_FromZero(balanceMap, entry, account) ==
    IF mapHas(balanceMap, entry.account_id)
    THEN mapGet(balanceMap, entry.account_id)
    ELSE 0

\* the balance the loop starts from for an entry's account
currentBalance(balanceMap, entry, account) ==
    IF mapHas(balanceMap, entry.account_id)
    THEN mapGet(balanceMap, entry.account_id)
    ELSE account.balance

\* a bug: an entry whose account is missing is passed over
RECURSIVE balanceLoop_SkipMissing(_, _, _, _)
balanceLoop_SkipMissing(es, accts, balanceMap, lookups) ==
    IF es = <<>>
    THEN [error |-> NoError, updates |-> balanceMap, lookups |-> lookups]
    ELSE LET entry == Head(es)
             found == getAccount(accts, entry.account_id)
             looked == Append(lookups, entry.account_id)
         IN IF found = <<>>
            THEN balanceLoop_SkipMissing(Tail(es), accts, balanceMap, looked)
            ELSE balanceLoop_SkipMissing(Tail(es), accts,
                     mapSet(balanceMap, entry.account_id,
                            newBalance(currentBalance(balanceMap, entry, found[1]),
                                       entry, found[1])),
                     looked)

\* a bug: the loop goes on after a missing account and reports the last one
RECURSIVE balanceLoop_LastMissing(_, _, _, _)
balanceLoop_LastMissing(es, accts, balanceMap, lookups) ==
    IF es = <<>>
    THEN [error |-> NoError, updates |-> balanceMap, lookups |-> lookups]
    ELSE LET entry == Head(es)
             found == getAccount(accts, entry.account_id)
             looked == Append(lookups, entry.account_id)
             rest == balanceLoop_LastMissing(Tail(es), accts, balanceMap, looked)
         IN IF found = <<>>
            THEN IF rest.error # NoError THEN rest
                 ELSE [error |-> AccountNotFoundError(entry.account_id),
                       updates |-> <<>>, lookups |-> rest.lookups]
            ELSE balanceLoop_LastMissing(Tail(es), accts,
                     mapSet(balanceMap, entry.account_id,
                            newBalance(currentBalance(balanceMap, entry, found[1]),
                                       entry, found[1])),
                     looked)

\* a bug: an entry that would leave its account below zero is refused
RECURSIVE balanceLoop_NoOverdraft(_, _, _, _)
balanceLoop_NoOverdraft(es, accts, balanceMap, lookups) ==
    IF es = <<>>
    THEN [error |-> NoError, updates |-> balanceMap, lookups |-> lookups]
    ELSE LET entry == Head(es)
             found == getAccount(accts, entry.account_id)
             looked == Append(lookups, entry.account_id)
         IN IF found = <<>>
            THEN [error |-> AccountNotFoundError(entry.account_id),
                  updates |-> <<>>, lookups |-> looked]
            ELSE IF newBalance(currentBalance(balanceMap, entry, found[1]),
                               entry, found[1]) < 0
            THEN [error |-> SchemaError("InsufficientFunds"),
                  updates |-> <<>>, lookups |-> looked]
            ELSE balanceLoop_NoOverdraft(Tail(es), accts,
                     mapSet(balanceMap, entry.account_id,
                            newBalance(currentBalance(balanceMap, entry, found[1]),
                                       entry, found[1])),
                     looked)

RECURSIVE balanceLoop(_, _, _, _)
balanceLoop(es, accts, balanceMap, lookups) ==
    IF es = <<>>
    THEN [error |-> NoError, updates |-> balanceMap, lookups |-> lookups]
    ELSE LET entry == Head(es)
             found == getAccount(accts, entry.account_id)
             looked == Append(lookups, entry.account_id)
         IN IF found = <<>>
            THEN [error |-> AccountNotFoundError(entry.account_id),
                  updates |-> <<>>, lookups |-> looked]
            ELSE balanceLoop(Tail(es), accts,
                     mapSet(balanceMap, entry.account_id,
                            newBalance(currentBalance(balanceMap, entry, found[1]),
                                       entry, found[1])),
                     looked)

calculateBalanceUpdates(es, accts) == balanceLoop(es, accts, <<>>, <<>>)

----------------------------------------------------------------------------
(* TransactionModel.fromInput and TransactionEntryModel.fromInput *)

\* a bug: the id an entry is supplied with is ignored
RECURSIVE entriesFromInput_AlwaysFresh(_, _, _)
entriesFromInput_AlwaysFresh(es, transactionId, used) ==
    IF es = <<>> THEN <<>>
    ELSE LET e == Head(es)
             id == randomUUID(used)
         IN <<[id |-> id, transactionId |-> transactionId,
               accountId |-> e.account_id, amount |-> e.amount,
               direction |-> e.direction]>>
            \o entriesFromInput_AlwaysFresh(Tail(es), transactionId, used \cup {id})

RECURSIVE entriesFromInput(_, _, _)
entriesFromInput(es, transactionId, used) ==
    IF es = <<>> THEN <<>>
    ELSE LET e == Head(es)
             id == IF e.id # NoId THEN e.id ELSE randomUUID(used)
         IN <<[id |-> id, transactionId |-> transactionId,
               accountId |-> e.account_id, amount |-> e.amount,
               direction |-> e.direction]>>
            \o entriesFromInput(Tail(es), transactionId, used \cup {id})

\* every id a row of the database holds
usedIds(db) ==
    DOMAIN db.accounts \cup {t.id : t \in Range(db.transactions)}
        \cup {e.id : e \in Range(db.entries)}

transactionFromInput(input, used) ==
    LET id == IF input.id # NoId THEN input.id ELSE randomUUID(used)
    IN [id |-> id,
        name |-> IF input.name = <<>> THEN ""
                 ELSE IF input.name[1] = "" THEN "" ELSE input.name[1],
        entries |-> entriesFromInput(input.entries, id, used \cup {id})]

----------------------------------------------------------------------------
(* TransactionsRepository.createWithBalanceUpdates.  The statements of the *)
(* callback run in order on the database; fault is the number of the       *)
(* statement at which the store itself fails (0: it does not).             *)

\* a bug: INSERT OR REPLACE, a transaction of an id in use takes the place
\* of the row
insertTransaction_Replace(db, transaction) ==
    [threw |-> FALSE,
     db |-> [db EXCEPT !.transactions =
               Append(SelectSeq(@, LAMBDA t : t.id # transaction.id),
                      [id |-> transaction.id, name |-> transaction.name])]]

\* INSERT INTO transactions: id is the PRIMARY KEY
insertTransaction(db, transaction) ==
    IF \E t \in Range(db.transactions) : t.id = transaction.id
    THEN [threw |-> TRUE, db |-> db]
    ELSE [threw |-> FALSE,
          db |-> [db EXCEPT !.transactions =
                    Append(@, [id |-> transaction.id, name |-> transaction.name])]]

\* a bug: the foreign keys are not enforced and the entry's own id is bound
\* to the column transaction_id
insertEntry_NoForeignKeys(db, entry) ==
    IF \E e \in Range(db.entries) : e.id = entry.id
    THEN [threw |-> TRUE, db |-> db]
    ELSE [threw |-> FALSE,
          db |-> [db EXCEPT !.entries =
                    Append(@, [id |-> entry.id, transaction_id |-> entry.id,
                               account_id |-> entry.accountId, amount |-> entry.amount,
                               direction |-> entry.direction])]]

\* INSERT INTO transaction_entries: id is the PRIMARY KEY, transaction_id and
\* account_id are FOREIGN KEYs
insertEntry(db, entry) ==
    IF \/ \E e \in Range(db.entries) : e.id = entry.id
       \/ ~ \E t \in Range(db.transactions) : t.id = entry.transactionId
       \/ entry.accountId \notin DOMAIN db.accounts
    THEN [threw |-> TRUE, db |-> db]
    ELSE [threw |-> FALSE,
          db |-> [db EXCEPT !.entries =
                    Append(@, [id |-> entry.id, transaction_id |-> entry.transactionId,
                               account_id |-> entry.accountId, amount |-> entry.amount,
                               direction |-> entry.direction])]]

\* statement k of the callback: 1 inserts the transaction, the next
\* Len(entries) insert the entries, the rest update the balances
statement(db, transaction, balanceUpdates, k) ==
    IF k = 1 THEN insertTransaction(db, transaction)
    ELSE IF k <= 1 + Len(transaction.entries)
    THEN insertEntry(db, transaction.entries[k - 1])
    ELSE [threw |-> FALSE,
          db |-> [db EXCEPT !.accounts =
                    updateBalance(@, balanceUpdates[k - 1 - Len(transaction.entries)])]]

RECURSIVE runStatements(_, _, _, _, _)
runStatements(db, transaction, balanceUpdates, fault, k) ==
    IF k > 1 + Len(transaction.entries) + Len(balanceUpdates)
    THEN [threw |-> FALSE, db |-> db, done |-> k - 1]
    ELSE IF fault = k
    THEN [threw |-> TRUE, db |-> db, done |-> k - 1]
    ELSE LET r == statement(db, transaction, balanceUpdates, k)
         IN IF r.threw THEN [threw |-> TRUE, db |-> db, done |-> k - 1]
            ELSE runStatements(r.db, transaction, balanceUpdates, fault, k + 1)

\* a bug: no ROLLBACK, the statements done before the failure stay
dbTransaction_NoRollback(db, ran) ==
    [threw |-> ran.threw, db |-> ran.db, done |-> ran.done]

\* db.transaction(fn)(): BEGIN, fn, then COMMIT, or ROLLBACK when fn throws
dbTransaction(db, ran) ==
    IF ran.threw THEN [threw |-> TRUE, db |-> db, done |-> ran.done]
    ELSE [threw |-> FALSE, db |-> ran.db, done |-> ran.done]

createWithBalanceUpdates(db, transaction, balanceUpdates, fault) ==
    dbTransaction(db, runStatements(db, transaction, balanceUpdates, fault, 1))

----------------------------------------------------------------------------
(* TransactionsService.createTransaction *)

NoResponse == [id |-> NoId, name |-> "", entries |-> <<>>]

formatResponse(saved) ==
    [id |-> saved.id, name |-> saved.name,
     entries |-> [i \in 1..Len(saved.entries) |->
                    [id |-> saved.entries[i].id,
                     account_id |-> saved.entries[i].accountId,
                     amount |-> saved.entries[i].amount,
                     direction |-> saved.entries[i].direction]]]

\* what a call leaves behind: the error thrown (NoError: it returned), the
\* database, the getAccount calls made, whether createWithBalanceUpdates was
\* called and with which balanceUpdates, how many statements it completed
Outcome(error, db, lookups, commitInvoked, updates, done, response) ==
    [error |-> error, db |-> db, lookups |-> lookups,
     commitInvoked |-> commitInvoked, updates |-> updates, done |-> done,
     response |-> response]

\* a bug: the accounts are looked up before the totals are compared
createTransaction_LookupFirst(db, input, fault) ==
    LET balance == validateEntriesBalance(input.entries)
        calc == calculateBalanceUpdates(input.entries, db.accounts)
        transaction == transactionFromInput(input, usedIds(db))
        saved == createWithBalanceUpdates(db, transaction, calc.updates, fault)
    IN IF calc.error # NoError
       THEN Outcome(calc.error, db, calc.lookups, FALSE, <<>>, 0, NoResponse)
       ELSE IF balance # NoError
       THEN Outcome(balance, db, calc.lookups, FALSE, <<>>, 0, NoResponse)
       ELSE IF saved.threw
       THEN Outcome(SqliteError, saved.db, calc.lookups, TRUE, calc.updates,
                    saved.done, NoResponse)
       ELSE Outcome(NoError, saved.db, calc.lookups, TRUE, calc.updates,
                    saved.done, formatResponse(transaction))

\* a bug: a commit that failed is run a second time
createTransaction_Retry(db, input, fault) ==
    LET balance == validateEntriesBalance(input.entries)
        calc == calculateBalanceUpdates(input.entries, db.accounts)
        transaction == transactionFromInput(input, usedIds(db))
        first == createWithBalanceUpdates(db, transaction, calc.updates, fault)
        saved == IF first.threw
                 THEN createWithBalanceUpdates(db, transaction, calc.updates, 0)
                 ELSE first
    IN IF balance # NoError
       THEN Outcome(balance, db, <<>>, FALSE, <<>>, 0, NoResponse)
       ELSE IF calc.error # NoError
       THEN Outcome(calc.error, db, calc.lookups, FALSE, <<>>, 0, NoResponse)
       ELSE IF saved.threw
       THEN Outcome(SqliteError, saved.db, calc.lookups, TRUE, calc.updates,
                    saved.done, NoResponse)
       ELSE Outcome(NoError, saved.db, calc.lookups, TRUE, calc.updates,
                    saved.done, formatResponse(transaction))

createTransaction(db, input, fault) ==
    LET balance == validateEntriesBalance(input.entries)
        calc == calculateBalanceUpdates(input.entries, db.accounts)
        transaction == transactionFromInput(input, usedIds(db))
        saved == createWithBalanceUpdates(db, transaction, calc.updates, fault)
    IN IF balance # NoError
       THEN Outcome(balance, db, <<>>, FALSE, <<>>, 0, NoResponse)
       ELSE IF calc.error # NoError
       THEN Outcome(calc.error, db, calc.lookups, FALSE, <<>>, 0, NoResponse)
       ELSE IF saved.threw
       THEN Outcome(SqliteError, saved.db, calc.lookups, TRUE, calc.updates,
                    saved.done, NoResponse)
       ELSE Outcome(NoError, saved.db, calc.lookups, TRUE, calc.updates,
                    saved.done, formatResponse(transaction))

----------------------------------------------------------------------------
(* createTransactionSchema and the POST /transactions route *)

\* a bug: the amount of an entry is any number
transactionIssues_AnyAmount(input) ==
    IF Len(input.entries) < 2 THEN {"TooFewEntries"} ELSE {}

\* a bug: the entries array has no minimum length
transactionIssues_NoMin(input) ==
    IF \E i \in 1..Len(input.entries) : ~ (input.entries[i].amount > 0)
    THEN {"InvalidEntry"} ELSE {}

\* the issues zod reports for a request body
transactionIssues(input) ==
    (IF Len(input.entries) < 2 THEN {"TooFewEntries"} ELSE {})
    \cup (IF \E i \in 1..Len(input.entries) : ~ (input.entries[i].amount > 0)
          THEN {"InvalidEntry"} ELSE {})

\* a request, the database it found (before) and the response to it
Handled(op, input, before, status, issues, out) ==
    [op |-> op, input |-> input, before |-> before, status |-> status,
     issues |-> issues,
     error |-> out.error, lookups |-> out.lookups,
     commitInvoked |-> out.commitInvoked, updates |-> out.updates,
     done |-> out.done, response |-> out.response]

transactionsApp(db, input, fault) ==
    LET issues == transactionIssues(input)
        out == createTransaction(db, input, fault)
    IN IF issues # {}
       THEN [db |-> db,
             handled |-> Handled("postTransaction", input, db, 400, issues,
                            Outcome(SchemaError("ZodError"), db, <<>>, FALSE, <<>>, 0,
                                    NoResponse))]
       ELSE [db |-> out.db,
             handled |-> Handled("postTransaction", input, db,
                                 IF out.error = NoError THEN 201 ELSE 400, {}, out)]

----------------------------------------------------------------------------
(* AccountModel.fromInput, AccountsRepository.create and POST /accounts *)

\* createAccountSchema: balance is z.number().optional().default(0), name
\* stays optional
createAccountSchema(body) ==
    [id |-> body.id, name |-> body.name,
     balance |-> IF body.balance = <<>> THEN 0 ELSE body.balance[1],
     direction |-> body.direction]

\* input.id || randomUUID(), input.name || '', input.balance || 0
accountFromInput(input, used) ==
    [id |-> IF input.id # NoId THEN input.id ELSE randomUUID(used),
     name |-> IF input.name = <<>> THEN ""
              ELSE IF input.name[1] = "" THEN "" ELSE input.name[1],
     balance |-> IF input.balance = 0 THEN 0 ELSE input.balance,
     direction |-> input.direction]

\* a bug: the INSERT leaves the column balance to its DEFAULT 0
createAccountRow_DefaultBalance(accts, account) ==
    IF account.id \in DOMAIN accts
    THEN [threw |-> TRUE, accounts |-> accts]
    ELSE [threw |-> FALSE,
          accounts |-> [id \in DOMAIN accts \cup {account.id} |->
                          IF id = account.id
                          THEN [name |-> account.name, balance |-> 0,
                                direction |-> account.direction]
                          ELSE accts[id]]]

\* a bug: INSERT OR REPLACE, a second account of the same id overwrites the row
createAccountRow_Replace(accts, account) ==
    [threw |-> FALSE,
     accounts |-> [id \in DOMAIN accts \cup {account.id} |->
                     IF id = account.id
                     THEN [name |-> account.name, balance |-> account.balance,
                           direction |-> account.direction]
                     ELSE accts[id]]]

\* INSERT INTO accounts: id is the PRIMARY KEY
createAccountRow(accts, account) ==
    IF account.id \in DOMAIN accts
    THEN [threw |-> TRUE, accounts |-> accts]
    ELSE [threw |-> FALSE,
          accounts |-> [id \in DOMAIN accts \cup {account.id} |->
                          IF id = account.id
                          THEN [name |-> account.name, balance |-> account.balance,
                                direction |-> account.direction]
                          ELSE accts[id]]]

----------------------------------------------------------------------------
(* The reads: AccountsRepository.findAll, TransactionsRepository.findById  *)
(* and findAll, and the service methods that call them.  None of them      *)
(* writes.                                                                 *)

\* SELECT id, name, balance, direction FROM accounts: the rows; the model
\* keeps the rows of the result and not their order
findAllAccounts(accts) == {findById(accts, id)[1] : id \in DOMAIN accts}

getAllAccounts(accts) == findAllAccounts(accts)

\* the order of two ids as strings; the model puts the ids a client
\* supplies before the generated ones, each kind by its number
idBefore(a, b) ==
    IF a[1] = b[1] THEN a[2] < b[2] ELSE a[1] = "id"

\* a bug: the join has no ON condition, every entry row is joined to t
joinedEntries_CrossJoin(db, t) ==
    [i \in 1..Len(db.entries) |->
        [id |-> db.entries[i].id, transactionId |-> t.id,
         accountId |-> db.entries[i].account_id, amount |-> db.entries[i].amount,
         direction |-> db.entries[i].direction]]

\* the rows e of transaction_entries joined to the transaction t
joinedEntries(db, t) ==
    LET rows == SelectSeq(db.entries, LAMBDA e : e.transaction_id = t.id)
    IN [i \in 1..Len(rows) |->
           [id |-> rows[i].id, transactionId |-> rows[i].transaction_id,
            accountId |-> rows[i].account_id, amount |-> rows[i].amount,
            direction |-> rows[i].direction]]

\* TransactionsRepository.findById with the entries: <<transaction>>, or <<>>
\* for null when the join has no row
findTransactionById(db, id) ==
    LET found == SelectSeq(db.transactions, LAMBDA t : t.id = id)
    IN IF found = <<>> \/ joinedEntries(db, found[1]) = <<>>
       THEN <<>>
       ELSE <<[id |-> found[1].id, name |-> found[1].name,
               entries |-> joinedEntries(db, found[1])]>>

getTransaction(db, id) == findTransactionById(db, id)

\* TransactionsRepository.findAll: the join ORDER BY t.id, e.id, grouped by
\* transaction in the order of the rows
findAllTransactions(db) ==
    LET joined == SelectSeq(db.transactions,
                            LAMBDA t : joinedEntries(db, t) # <<>>)
        sorted == SortSeq(joined, LAMBDA a, b : idBefore(a.id, b.id))
    IN [i \in 1..Len(sorted) |->
           [id |-> sorted[i].id, name |-> sorted[i].name,
            entries |-> SortSeq(joinedEntries(db, sorted[i]),
                                LAMBDA a, b : idBefore(a.id, b.id))]]

getAllTransactions(db) == findAllTransactions(db)

\* a read, the database it found and what it returned
Read(op, input, db, result) ==
    Handled(op, input, db, 200, {},
            Outcome(NoError, db, <<>>, FALSE, <<>>, 0, result))

----------------------------------------------------------------------------
(* The state machine *)

database == [accounts |-> accounts, transactions |-> transactions, entries |-> entries]

NoAccounts == [id \in {} |-> 0]

\* no getAccount call is recorded
NoReads == [id \in {} |-> 0]

\* no response is waiting to be sent
Idle == Handled("idle", NoId, NoId, 0, {},
                Outcome(NoError, NoId, <<>>, FALSE, <<>>, 0, NoResponse))

Init ==
    /\ accounts = NoAccounts
    /\ transactions = <<>>
    /\ entries = <<>>
    /\ opening = NoAccounts
    /\ commits = <<>>
    /\ reads = NoReads
    /\ lastOp = Idle

\* POST /accounts
CreateAccount(input) ==
    LET account == accountFromInput(createAccountSchema(input), usedIds(database))
        made == createAccountRow(accounts, account)
    IN /\ lastOp.op = "idle"
       /\ accounts' = made.accounts
       /\ opening' = IF made.threw THEN opening
                     ELSE [id \in DOMAIN opening \cup {account.id} |->
                             IF id = account.id THEN account.balance ELSE opening[id]]
       /\ lastOp' = Handled("createAccount", input, database,
                            IF made.threw THEN 400 ELSE 201, {},
                            Outcome(IF made.threw THEN SqliteError ELSE NoError,
                                    database, <<>>, FALSE, <<>>, 0,
                                    IF made.threw THEN NoResponse ELSE account))
       /\ UNCHANGED <<transactions, entries, commits, reads>>

\* the statements the commit of a request runs (0: it is not reached)
statementsOf(input) ==
    IF \/ transactionIssues(input) # {}
       \/ validateEntriesBalance(input.entries) # NoError
       \/ calculateBalanceUpdates(input.entries, accounts).error # NoError
    THEN 0
    ELSE 1 + Len(input.entries)
           + Len(calculateBalanceUpdates(input.entries, accounts).updates)

\* POST /transactions
PostTransaction(input, fault) ==
    LET r == transactionsApp(database, input, fault)
    IN /\ lastOp.op = "idle"
       /\ Len(entries) + Len(input.entries) <= MaxRows
       /\ fault <= statementsOf(input)
       /\ accounts' = r.db.accounts
       /\ transactions' = r.db.transactions
       /\ entries' = r.db.entries
       /\ lastOp' = r.handled
       /\ commits' = IF r.handled.status = 201
                     THEN Append(commits, [id |-> r.handled.response.id,
                                           before |-> accounts,
                                           input |-> input,
                                           response |-> r.handled.response])
                     ELSE commits
       /\ UNCHANGED <<opening, reads>>

\* AccountsService.getAccount
GetAccount(id) ==
    /\ lastOp.op = "idle"
    /\ lastOp' = Read("getAccount", id, database, getAccount(accounts, id))
    /\ UNCHANGED <<accounts, transactions, entries, opening, commits, reads>>

\* AccountsService.getAllAccounts
GetAllAccounts ==
    /\ lastOp.op = "idle"
    /\ lastOp' = Read("getAllAccounts", NoId, database, getAllAccounts(accounts))
    /\ UNCHANGED <<accounts, transactions, entries, opening, commits, reads>>

\* TransactionsService.getTransaction
GetTransaction(id) ==
    /\ lastOp.op = "idle"
    /\ lastOp' = Read("getTransaction", id, database, getTransaction(database, id))
    /\ UNCHANGED <<accounts, transactions, entries, opening, commits, reads>>

\* TransactionsService.getAllTransactions
GetAllTransactions ==
    /\ lastOp.op = "idle"
    /\ lastOp' = Read("getAllTransactions", NoId, database,
                      getAllTransactions(database))
    /\ UNCHANGED <<accounts, transactions, entries, opening, commits, reads>>

\* the response of the request just handled is sent
Respond ==
    /\ lastOp.op # "idle"
    /\ lastOp' = Idle
    /\ UNCHANGED <<accounts, transactions, entries, opening, commits, reads>>

Next ==
    \/ \E input \in AccountInputs : CreateAccount(input)
    \/ Respond
    \/ \E input \in TransactionInputs, fault \in 0..(1 + 2 * MaxEntries) :
           PostTransaction(input, fault)
    \/ \E id \in AccountIds : GetAccount(id)
    \/ GetAllAccounts
    \/ \E id \in TransactionIds \cup {Uuid(1)} : GetTransaction(id)
    \/ GetAllTransactions

Spec == Init /\ [][Next]_vars

----------------------------------------------------------------------------
(* What the claims speak of, stated from the rows and the request alone *)

\* the effect of one entry on an account of direction dir
SignedEffect(entry, dir) ==
    IF entry.direction = dir THEN entry.amount ELSE 0 - entry.amount

\* the sum of the effects of the entries of rows that reference account id
RECURSIVE SumEffects(_, _, _)
SumEffects(rows, id, dir) ==
    IF rows = <<>> THEN 0
    ELSE (IF Head(rows).account_id = id THEN SignedEffect(Head(rows), dir) ELSE 0)
         + SumEffects(Tail(rows), id, dir)

\* the sum of the amounts of the entries of rows of direction dir
RECURSIVE SumAmounts(_, _)
SumAmounts(rows, dir) ==
    IF rows = <<>> THEN 0
    ELSE (IF Head(rows).direction = dir THEN Head(rows).amount ELSE 0)
         + SumAmounts(Tail(rows), dir)

TotalsDiffer(rows) == Abs(SumAmounts(rows, DEBIT) - SumAmounts(rows, CREDIT))

\* the rows of transaction_entries that belong to a transaction
EntriesOf(rows, transactionId) ==
    SelectSeq(rows, LAMBDA e : e.transaction_id = transactionId)

\* the accounts the entries of rows reference
Touched(rows) == {rows[i].account_id : i \in 1..Len(rows)}

Posted == lastOp.op = "postTransaction"
Succeeded == Posted /\ lastOp.status = 201
Rejected == Posted /\ lastOp.status = 400

----------------------------------------------------------------------------
----------------------------------------------------------------------------
(* C2: the commit is all or nothing.  When createWithBalanceUpdates        *)
(* returns, the transaction row, every entry row and every balance update  *)
(* of the posting are present; when it fails, at whatever statement, the   *)
(* three tables are as the call found them.                                *)
C2_CommitAllOrNothing ==
    (Posted /\ lastOp.commitInvoked) =>
        IF lastOp.status = 201
        THEN /\ \E t \in Range(transactions) : t.id = lastOp.response.id
             /\ Len(EntriesOf(entries, lastOp.response.id))
                    = Len(lastOp.input.entries)
             /\ \A i \in 1..Len(lastOp.response.entries) :
                    \E e \in Range(entries) :
                        /\ e.id = lastOp.response.entries[i].id
                        /\ e.transaction_id = lastOp.response.id
             /\ \A i \in 1..Len(lastOp.updates) :
                    accounts[lastOp.updates[i].id].balance = lastOp.updates[i].balance
             /\ lastOp.done = 1 + Len(lastOp.input.entries) + Len(lastOp.updates)
        ELSE /\ accounts = lastOp.before.accounts
             /\ transactions = lastOp.before.transactions
             /\ entries = lastOp.before.entries

\* the commit failed at its last statement: the transaction row, both entry
\* rows and the first of two balance updates, which changes a balance, were done
C2_Witness ==
    /\ Rejected /\ lastOp.commitInvoked
    /\ Len(lastOp.updates) = 2
    /\ lastOp.done = 1 + Len(lastOp.input.entries) + 1
    /\ lastOp.updates[1].balance # lastOp.before.accounts[lastOp.updates[1].id].balance

----------------------------------------------------------------------------
(* C3: no lost update.  Of two postings that both commit, one right after  *)
(* the other, and touch a common account, the later one reads the balance  *)
(* the earlier one wrote, and the account ends at the balance it had       *)
(* before both plus the signed effects of the entries of both.             *)
BothTouch(id) ==
    /\ Len(commits) >= 2
    /\ id \in Touched(EntriesOf(entries, commits[Len(commits)].id))
    /\ id \in Touched(EntriesOf(entries, commits[Len(commits) - 1].id))

----------------------------------------------------------------------------
(* What a rejected posting leaves behind *)

\* the three tables are as the request found them
NothingChanged ==
    /\ accounts = lastOp.before.accounts
    /\ transactions = lastOp.before.transactions
    /\ entries = lastOp.before.entries

\* the request body passes createTransactionSchema: at least 2 entries, each
\* of a positive amount
WellFormed ==
    /\ Len(lastOp.input.entries) >= 2
    /\ \A i \in 1..Len(lastOp.input.entries) : lastOp.input.entries[i].amount > 0

\* the posting fails with Unbalanced, carrying the totals of its entries
FailsUnbalanced ==
    /\ lastOp.status = 400
    /\ lastOp.error = UnbalancedError(SumAmounts(lastOp.input.entries, DEBIT),
                                      SumAmounts(lastOp.input.entries, CREDIT))

\* some entry of the posting references an account that did not exist
MissingAccount ==
    \E i \in 1..Len(lastOp.input.entries) :
        lastOp.input.entries[i].account_id \notin DOMAIN lastOp.before.accounts

\* the first entry, in input order, whose account did not exist
FirstMissing ==
    lastOp.input.entries[
        CHOOSE i \in 1..Len(lastOp.input.entries) :
            /\ lastOp.input.entries[i].account_id \notin DOMAIN lastOp.before.accounts
            /\ \A j \in 1..(i - 1) :
                   lastOp.input.entries[j].account_id \in DOMAIN lastOp.before.accounts
    ].account_id

----------------------------------------------------------------------------
----------------------------------------------------------------------------
----------------------------------------------------------------------------
----------------------------------------------------------------------------
----------------------------------------------------------------------------
(* The validator on its own: validateEntriesBalance applied to every        *)
(* entries array of the bound, amounts of the tolerance test included       *)
(* (1000.0001 and 1000.00009 are 100000010 and 100000009 units).            *)

ValidatorAmounts == {30, 130, 100000009, 100000010}

ValidatorEntries ==
    [id : {NoId}, account_id : {ClientId(1)},
     amount : ValidatorAmounts, direction : Direction]

ValidatorInputs == SeqsUpTo(ValidatorEntries, MaxEntries)

\* a call of the validator, before it runs and after it returned or threw
ValidatorCall(op, es, error) ==
    Handled(op, es, NoId, 0, {}, Outcome(error, NoId, <<>>, FALSE, <<>>, 0, NoResponse))

InitValidator ==
    /\ accounts = NoAccounts
    /\ transactions = <<>>
    /\ entries = <<>>
    /\ opening = NoAccounts
    /\ commits = <<>>
    /\ reads = NoReads
    /\ lastOp \in {ValidatorCall("validate", es, NoError) : es \in ValidatorInputs}

Validate ==
    /\ lastOp.op = "validate"
    /\ lastOp' = ValidatorCall("validated", lastOp.input,
                               validateEntriesBalance(lastOp.input))
    /\ UNCHANGED <<accounts, transactions, entries, opening, commits, reads>>

NextValidator == Validate

SpecValidator == InitValidator /\ [][NextValidator]_vars

Validated == lastOp.op = "validated"

----------------------------------------------------------------------------
----------------------------------------------------------------------------
(* C9: a posting of fewer than 2 entries (0 or 1) is rejected as           *)
(* TooFewEntries before any account is looked up, and creates no           *)
(* transaction, no entry and no balance change; so every persisted         *)
(* transaction has at least 2 entries.                                     *)
C9_TooFewEntries ==
    /\ (Posted /\ Len(lastOp.input.entries) < 2) =>
          /\ lastOp.status = 400
          /\ "TooFewEntries" \in lastOp.issues
          /\ lastOp.lookups = <<>>
          /\ ~ lastOp.commitInvoked
          /\ NothingChanged
    /\ \A t \in Range(transactions) : Len(EntriesOf(entries, t.id)) >= 2

\* a posting of one entry on an existing account was refused, with a
\* transaction already persisted
C9_Witness ==
    /\ Rejected
    /\ Len(lastOp.input.entries) = 1
    /\ lastOp.input.entries[1].account_id \in DOMAIN accounts
    /\ Len(transactions) >= 1

----------------------------------------------------------------------------
----------------------------------------------------------------------------
(* C11: the balance of an existing account changes only inside the commit. *)
(* In every step in which the stored balance of an existing account        *)
(* changes, the same step inserts a transaction with at least one entry    *)
(* that references the account; createAccount, getAccount, getAllAccounts, *)
(* getTransaction, getAllTransactions and rejected postings change no      *)
(* existing balance.                                                       *)
BalanceChanged(id) ==
    id \in DOMAIN accounts' /\ accounts'[id].balance # accounts[id].balance

InsertsTransactionOn(id) ==
    \E t \in Range(transactions') :
        /\ t \notin Range(transactions)
        /\ id \in Touched(EntriesOf(entries', t.id))
        /\ EntriesOf(entries, t.id) = <<>>

NotACommit ==
    \/ lastOp'.op \in {"createAccount", "getAccount", "getAllAccounts",
                       "getTransaction", "getAllTransactions", "idle"}
    \/ lastOp'.op = "postTransaction" /\ lastOp'.status = 400

C11_BalanceChangesOnlyInCommit ==
    [][/\ \A id \in DOMAIN accounts : BalanceChanged(id) => InsertsTransactionOn(id)
       /\ NotACommit =>
             \A id \in DOMAIN accounts :
                 id \in DOMAIN accounts' /\ ~ BalanceChanged(id)]_vars

\* a commit changed the balance of an account that existed before it
C11_Witness ==
    /\ Succeeded
    /\ Len(transactions) = Len(lastOp.before.transactions) + 1
    /\ \E id \in DOMAIN lastOp.before.accounts :
          accounts[id].balance # lastOp.before.accounts[id].balance

----------------------------------------------------------------------------
(* C12: in every reachable state, every persisted entry references an      *)
(* account that exists and exactly one transaction that exists.            *)
C12_EntriesReferenceRows ==
    \A e \in Range(entries) :
        /\ e.account_id \in DOMAIN accounts
        /\ Cardinality({i \in 1..Len(transactions) :
                          transactions[i].id = e.transaction_id}) = 1

\* the entries of a transaction are persisted, and a posting on a missing
\* account was just refused
C12_Witness ==
    /\ Len(transactions) = 1
    /\ Len(entries) = 2
    /\ Rejected
    /\ lastOp.error.kind = "AccountNotFound"

----------------------------------------------------------------------------
(* The ledger with request bodies whose amounts are zero or negative as    *)
(* well as positive.                                                       *)

BoundaryAmounts == {0 - 30, 0, 30}

BoundaryEntries ==
    [id : {NoId}, account_id : AccountIds,
     amount : BoundaryAmounts, direction : Direction]

BoundaryInputs ==
    [id : {NoId}, name : Names, entries : SeqsUpTo(BoundaryEntries, MaxEntries)]

NextBoundary ==
    \/ \E input \in AccountInputs : CreateAccount(input)
    \/ Respond
    \/ \E input \in BoundaryInputs : PostTransaction(input, 0)

SpecBoundary == Init /\ [][NextBoundary]_vars

----------------------------------------------------------------------------
(* C13: a posting with an entry whose amount is zero or negative is        *)
(* rejected and changes nothing, even when its debit total and its credit  *)
(* total are equal; so every persisted entry has an amount above zero.     *)
C13_NonPositiveAmountRejected ==
    /\ (Posted /\ \E i \in 1..Len(lastOp.input.entries) :
                     lastOp.input.entries[i].amount <= 0) =>
          /\ lastOp.status = 400
          /\ "InvalidEntry" \in lastOp.issues
          /\ ~ lastOp.commitInvoked
          /\ NothingChanged
    /\ \A e \in Range(entries) : e.amount > 0

\* a posting of a negative debit and an equal negative credit on existing
\* accounts was refused, with entries already persisted
C13_Witness ==
    /\ Rejected
    /\ Len(lastOp.input.entries) = 2
    /\ lastOp.input.entries[1].amount < 0
    /\ SumAmounts(lastOp.input.entries, DEBIT) = SumAmounts(lastOp.input.entries, CREDIT)
    /\ Touched(lastOp.input.entries) \subseteq DOMAIN accounts
    /\ Len(entries) >= 2

----------------------------------------------------------------------------
(* C14: once an account is created, no operation changes its id, its name  *)
(* or its direction and none removes it: in every step the accounts of     *)
(* before are accounts after, each with the name and the direction it had, *)
(* so the direction of an account is always the one it was created with.   *)
C14_AccountsKeepIdentity ==
    [][\A id \in DOMAIN accounts :
          /\ id \in DOMAIN accounts'
          /\ accounts'[id].name = accounts[id].name
          /\ accounts'[id].direction = accounts[id].direction]_vars

\* a second creation under the id of an account, with the other direction,
\* was refused after a posting had changed the balance of the account
C14_Witness ==
    /\ lastOp.op = "createAccount"
    /\ lastOp.status = 400
    /\ lastOp.input.id \in DOMAIN accounts
    /\ lastOp.input.direction # accounts[lastOp.input.id].direction
    /\ accounts[lastOp.input.id].balance # opening[lastOp.input.id]

----------------------------------------------------------------------------
(* C15: once a transaction is committed, no later operation modifies or    *)
(* removes it or its entries: in every step, each transaction of before is *)
(* a transaction after, with the same id and name and the same set of      *)
(* entries (ids, account ids, amounts, directions).                        *)
C15_TransactionsImmutable ==
    [][\A t \in Range(transactions) :
          /\ t \in Range(transactions')
          /\ Range(EntriesOf(entries', t.id)) = Range(EntriesOf(entries, t.id))]_vars

\* a posting under the id of a committed transaction reached the commit and
\* failed there
C15_Witness ==
    /\ Rejected
    /\ lastOp.commitInvoked
    /\ \E t \in Range(transactions) : t.id = lastOp.input.id
    /\ Len(EntriesOf(entries, lastOp.input.id)) = 2

----------------------------------------------------------------------------
(* C16: a read of accounts returns balances from before or from after a    *)
(* commit, never from inside one.  The balance getAccount returns, and all *)
(* the balances of one getAllAccounts together, are those left by some     *)
(* number of whole commits: the opening balance plus the signed effects of *)
(* all entries of the first k committed postings, for one k.               *)
RECURSIVE AfterCommits(_, _)
AfterCommits(id, k) ==
    IF k = 0 THEN opening[id]
    ELSE AfterCommits(id, k - 1)
         + SumEffects(EntriesOf(entries, commits[k].id), id, accounts[id].direction)

\* the rows a read of accounts returned
RowsRead ==
    IF lastOp.op = "getAccount" THEN Range(lastOp.response)
    ELSE IF lastOp.op = "getAllAccounts" THEN lastOp.response
    ELSE {}

C16_ReadsSeeWholeCommits ==
    \E k \in 0..Len(commits) :
        \A row \in RowsRead : row.balance = AfterCommits(row.id, k)

\* getAllAccounts after a commit that changed the balances of two accounts
C16_Witness ==
    /\ lastOp.op = "getAllAccounts"
    /\ Len(commits) >= 1
    /\ Cardinality(lastOp.response) = 2
    /\ \A row \in lastOp.response :
          /\ row.id \in DOMAIN commits[Len(commits)].before
          /\ row.balance # commits[Len(commits)].before[row.id].balance

----------------------------------------------------------------------------
----------------------------------------------------------------------------
(* C18: when a balanced posting references one or more missing accounts,   *)
(* the AccountNotFound error carries the account_id of the first entry, in *)
(* input order, whose account does not exist, and no account is looked up  *)
(* for any later entry.                                                    *)

\* the account ids of the entries up to the first whose account is missing
UpToFirstMissing ==
    LET n == CHOOSE i \in 1..Len(lastOp.input.entries) :
                /\ lastOp.input.entries[i].account_id = FirstMissing
                /\ \A j \in 1..(i - 1) :
                       lastOp.input.entries[j].account_id # FirstMissing
    IN [i \in 1..n |-> lastOp.input.entries[i].account_id]

----------------------------------------------------------------------------
(* The ledger with request bodies that supply the ids of their entries, or *)
(* leave them out, as well as the id of the transaction.                   *)

SuppliedEntryIds == {ClientId(21), ClientId(22)}

IdEntries ==
    [id : {NoId} \cup SuppliedEntryIds, account_id : AccountIds,
     amount : {30}, direction : Direction]

IdInputs ==
    [id : {NoId} \cup TransactionIds, name : Names,
     entries : SeqsUpTo(IdEntries, MaxEntries)]

NextIds ==
    \/ \E input \in AccountInputs : CreateAccount(input)
    \/ Respond
    \/ \E input \in IdInputs : PostTransaction(input, 0)

SpecIds == Init /\ [][NextIds]_vars

----------------------------------------------------------------------------
(* C19: a successful posting returns the committed transaction.  Its id is *)
(* the supplied id, or a fresh one when none was supplied; its entries are *)
(* in input order, one per input entry, each with the account_id, amount   *)
(* and direction of the input and with the supplied entry id or a fresh    *)
(* one; and the transaction and entries returned are exactly the rows      *)
(* persisted.                                                              *)

\* id is the id supplied, or one no row used before the posting
SuppliedOrFresh(id, supplied) ==
    IF supplied # NoId THEN id = supplied
    ELSE id # NoId /\ id \notin usedIds(lastOp.before)

C19_ResponseIsCommitted ==
    Succeeded =>
        LET response == lastOp.response
            input == lastOp.input
            rows == EntriesOf(entries, response.id)
        IN /\ SuppliedOrFresh(response.id, input.id)
           /\ Len(response.entries) = Len(input.entries)
           /\ \A i \in 1..Len(input.entries) :
                 /\ response.entries[i].account_id = input.entries[i].account_id
                 /\ response.entries[i].amount = input.entries[i].amount
                 /\ response.entries[i].direction = input.entries[i].direction
                 /\ SuppliedOrFresh(response.entries[i].id, input.entries[i].id)
                 /\ \A j \in 1..Len(input.entries) :
                       j # i => response.entries[j].id # response.entries[i].id
           /\ Cardinality({i \in 1..Len(transactions) :
                             /\ transactions[i].id = response.id
                             /\ transactions[i].name = response.name}) = 1
           /\ Len(rows) = Len(response.entries)
           /\ \A i \in 1..Len(rows) :
                 rows[i] = [id |-> response.entries[i].id,
                            transaction_id |-> response.id,
                            account_id |-> response.entries[i].account_id,
                            amount |-> response.entries[i].amount,
                            direction |-> response.entries[i].direction]

\* a second posting, with no transaction id, the id of its first entry
\* supplied and the id of its second left out, was committed
C19_Witness ==
    /\ Succeeded
    /\ Len(lastOp.before.transactions) = 1
    /\ lastOp.input.id = NoId
    /\ lastOp.input.entries[1].id # NoId
    /\ lastOp.input.entries[2].id = NoId
    /\ lastOp.input.entries[1].direction = DEBIT

----------------------------------------------------------------------------
(* Accounts on their own: POST /accounts with every optional field         *)
(* supplied or left out, and getAccount of ids created and never created.  *)

AccountBodies ==
    [id : {NoId, ClientId(1)}, name : {<<>>, <<"">>, <<"cash">>},
     balance : {<<>>, <<0>>, <<500>>}, direction : Direction]

LookupIds == {ClientId(1), ClientId(2)} \cup {Uuid(n) : n \in 1..MaxAccounts}

NextAccounts ==
    \/ \E body \in AccountBodies :
          /\ Cardinality(DOMAIN accounts) < MaxAccounts \/ body.id \in DOMAIN accounts
          /\ CreateAccount(body)
    \/ \E id \in LookupIds : GetAccount(id)
    \/ Respond

SpecAccounts == Init /\ [][NextAccounts]_vars

----------------------------------------------------------------------------
(* C20: createAccount followed by getAccount round-trips.  After           *)
(* createAccount succeeds with an unused id, getAccount of the returned id *)
(* yields an account with the same id, name, balance and direction; the id *)
(* is the supplied one, or a fresh one when absent, and the balance is the *)
(* supplied one, or 0 when none was supplied.  getAccount of an id never   *)
(* created yields null, not an error.                                      *)
Created == lastOp.op = "createAccount" /\ lastOp.status = 201

C20_CreateThenGet ==
    /\ Created =>
          /\ getAccount(accounts, lastOp.response.id) = <<lastOp.response>>
          /\ IF lastOp.input.id # NoId THEN lastOp.response.id = lastOp.input.id
             ELSE /\ lastOp.response.id # NoId
                  /\ lastOp.response.id \notin DOMAIN lastOp.before.accounts
          /\ lastOp.response.balance
                = (IF lastOp.input.balance = <<>> THEN 0 ELSE lastOp.input.balance[1])
          /\ lastOp.response.name
                = (IF lastOp.input.name = <<>> THEN "" ELSE lastOp.input.name[1])
          /\ lastOp.response.direction = lastOp.input.direction
    /\ lastOp.op = "getAccount" =>
          /\ lastOp.error = NoError
          /\ IF lastOp.input \in DOMAIN opening
             THEN /\ Len(lastOp.response) = 1
                  /\ lastOp.response[1].id = lastOp.input
                  /\ lastOp.response[1].balance = opening[lastOp.input]
             ELSE lastOp.response = <<>>

\* an account was created with no id and no balance after another one;
\* getAccount of its id returns it with balance 0
C20_Witness ==
    /\ Created
    /\ lastOp.input.id = NoId
    /\ lastOp.input.balance = <<>>
    /\ lastOp.input.name = <<"cash">>
    /\ Cardinality(DOMAIN accounts) = 2
    /\ getAccount(accounts, lastOp.response.id)[1].balance = 0
    /\ getAccount(accounts, ClientId(2)) = <<>>

----------------------------------------------------------------------------
(* The ledger with its getAccount calls recorded: for each id, the balance *)
(* the first call since the last commit returned (NoBalance for null), the *)
(* balance the latest call returned, the number of commits before them and *)
(* whether a second call was made.                                         *)

\* what a getAccount call returned: <<balance>>, or <<>> for null
balanceRead(result) == IF result = <<>> THEN <<>> ELSE <<result[1].balance>>

recordRead(id, result) ==
    IF id \in DOMAIN reads /\ reads[id].commits = Len(commits)
    THEN [reads EXCEPT ![id].latest = balanceRead(result), ![id].again = TRUE]
    ELSE [i \in DOMAIN reads \cup {id} |->
            IF i = id
            THEN [first |-> balanceRead(result), latest |-> balanceRead(result),
                  commits |-> Len(commits), again |-> FALSE]
            ELSE reads[i]]

\* AccountsService.getAccount, recorded
GetAccountRecorded(id) ==
    /\ lastOp.op = "idle"
    /\ lastOp' = Read("getAccount", id, database, getAccount(accounts, id))
    /\ reads' = recordRead(id, getAccount(accounts, id))
    /\ UNCHANGED <<accounts, transactions, entries, opening, commits>>

ReadEntries ==
    [id : {NoId}, account_id : AccountIds, amount : {30}, direction : Direction]

ReadInputs ==
    [id : {NoId}, name : Names, entries : SeqsUpTo(ReadEntries, MaxEntries)]

NextReads ==
    \/ \E input \in AccountInputs : CreateAccount(input)
    \/ Respond
    \/ \E input \in ReadInputs, fault \in {0, 1 + MaxEntries} :
           PostTransaction(input, fault)
    \/ \E id \in AccountIds : GetAccountRecorded(id)
    \/ GetAllAccounts
    \/ \E id \in {Uuid(1)} : GetTransaction(id)
    \/ GetAllTransactions

SpecReads == Init /\ [][NextReads]_vars

----------------------------------------------------------------------------
(* C21: reads are idempotent and free of side effects.  getAccount,        *)
(* getAllAccounts, getTransaction and getAllTransactions leave every       *)
(* account, transaction and entry as they found it, and two getAccount     *)
(* calls for one id with no committed posting between them return the same *)
(* balance.                                                                *)
IsRead ==
    lastOp.op \in {"getAccount", "getAllAccounts", "getTransaction",
                   "getAllTransactions"}

C21_ReadsIdempotent ==
    /\ IsRead => NothingChanged
    /\ \A id \in DOMAIN reads :
          (reads[id].commits = Len(commits) /\ reads[id].first # <<>>) =>
              /\ reads[id].latest = reads[id].first
              /\ getAccount(accounts, id) # <<>>
              /\ getAccount(accounts, id)[1].balance = reads[id].first[1]

\* getAccount was called a second time for an account whose balance a
\* commit had changed, with no commit since the first call
C21_Witness ==
    /\ lastOp.op = "getAccount"
    /\ lastOp.input \in DOMAIN reads
    /\ reads[lastOp.input].again
    /\ reads[lastOp.input].commits = Len(commits)
    /\ Len(commits) >= 1
    /\ reads[lastOp.input].first # <<>>
    /\ reads[lastOp.input].first[1] # opening[lastOp.input]

----------------------------------------------------------------------------
(* C22: a failure of the commit itself is reported to the caller with an   *)
(* outcome distinct from the outcome of every validation failure, and is   *)
(* not retried.  Whenever the store fails at a statement of the commit,    *)
(* the exception that reaches the route is the store's own, which is none  *)
(* of TooFewEntries, InvalidEntry, Unbalanced and AccountNotFound and      *)
(* carries no zod issue; the statements stop at the failing one and are    *)
(* not run again, so no row and no balance changes.                        *)
CommitFailed == Posted /\ lastOp.commitInvoked /\ lastOp.error = SqliteError

ValidationKinds == {"ZodError", "TooFewEntries", "InvalidEntry", "Unbalanced",
                    "AccountNotFound"}

----------------------------------------------------------------------------
(* C23: balances may be negative and are never a reason to reject.  Every  *)
(* posting of at least 2 entries of positive amounts whose totals differ   *)
(* by at most 0.001, whose accounts all exist and whose supplied ids meet  *)
(* no id in use (of a row, or of an earlier entry of the same posting) is  *)
(* committed when the store does not fail: it is answered 201 and its      *)
(* transaction and entries are inserted, whatever the sign of the balances *)
(* it leaves.                                                              *)

\* the request can be committed on the database as it is
Committable(input) ==
    /\ Len(input.entries) >= 2
    /\ \A i \in 1..Len(input.entries) : input.entries[i].amount > 0
    /\ TotalsDiffer(input.entries) <= Tolerance
    /\ \A i \in 1..Len(input.entries) : input.entries[i].account_id \in DOMAIN accounts
    /\ input.id # NoId => \A t \in Range(transactions) : t.id # input.id
    /\ \A i \in 1..Len(input.entries) :
          input.entries[i].id # NoId =>
              /\ \A e \in Range(entries) : e.id # input.entries[i].id
              /\ \A j \in 1..(i - 1) : input.entries[j].id # input.entries[i].id

----------------------------------------------------------------------------
(* Postings with and without a name and supplied ids, some of them rolled  *)
(* back by the store, and getTransaction of ids committed or not           *)

RoundTripNames == {<<>>, <<"rent">>}

RoundTripEntries ==
    [id : {NoId, ClientId(21)}, account_id : AccountIds,
     amount : {30}, direction : Direction]

\* a debit entry followed by a credit entry of the same amount
RoundTripInputs ==
    {input \in [id : {NoId} \cup TransactionIds, name : RoundTripNames,
                entries : SeqsUpTo(RoundTripEntries, MaxEntries)] :
        /\ Len(input.entries) = 2
        /\ input.entries[1].direction = DEBIT
        /\ input.entries[2].direction = CREDIT}

RoundTripLookups == TransactionIds \cup {Uuid(1), Uuid(2)}

NextRoundTrip ==
    \/ \E input \in AccountInputs : CreateAccount(input)
    \/ Respond
    \/ \E input \in RoundTripInputs, fault \in {0, 1 + MaxEntries} :
           PostTransaction(input, fault)
    \/ \E id \in RoundTripLookups : GetTransaction(id)

SpecRoundTrip == Init /\ [][NextRoundTrip]_vars

\* the entry a response of POST /transactions shows, as findById returns it
asModel(entry, transactionId) ==
    [id |-> entry.id, transactionId |-> transactionId,
     accountId |-> entry.account_id, amount |-> entry.amount,
     direction |-> entry.direction]

----------------------------------------------------------------------------
(* C24: getTransaction round-trips a posting.  For every posting that was  *)
(* committed and returned id T, getTransaction(T) returns a transaction of *)
(* id T, of the name posted ('' when none was posted) and of exactly the   *)
(* entries the posting returned, which carry the account ids, amounts and  *)
(* directions of the request and the entry ids it supplied; getTransaction *)
(* of an id no committed posting returned gives null.                      *)
C24_GetTransactionRoundTrips ==
    /\ \A k \in 1..Len(commits) :
          LET c == commits[k]
              got == getTransaction(database, c.id)
          IN /\ c.response.id = c.id
             /\ c.input.id # NoId => c.id = c.input.id
             /\ got # <<>>
             /\ got[1].id = c.id
             /\ got[1].name = c.response.name
             /\ got[1].name = (IF c.input.name = <<>> THEN "" ELSE c.input.name[1])
             /\ Len(got[1].entries) = Len(c.input.entries)
             /\ Range(got[1].entries)
                   = {asModel(c.response.entries[i], c.id) :
                          i \in 1..Len(c.response.entries)}
             /\ Len(c.response.entries) = Len(c.input.entries)
             /\ \A i \in 1..Len(c.input.entries) :
                   /\ c.response.entries[i].account_id = c.input.entries[i].account_id
                   /\ c.response.entries[i].amount = c.input.entries[i].amount
                   /\ c.response.entries[i].direction = c.input.entries[i].direction
                   /\ c.input.entries[i].id # NoId =>
                          c.response.entries[i].id = c.input.entries[i].id
    /\ \A id \in RoundTripLookups :
          (\A k \in 1..Len(commits) : commits[k].id # id) =>
              getTransaction(database, id) = <<>>
    /\ lastOp.op = "getTransaction" =>
          /\ lastOp.response = getTransaction(database, lastOp.input)
          /\ NothingChanged

\* getTransaction of the first of two committed postings, which was posted
\* with a name and an entry id, while another id has no transaction
C24_Witness ==
    /\ lastOp.op = "getTransaction"
    /\ Len(commits) = 2
    /\ lastOp.input = commits[1].id
    /\ lastOp.response # <<>>
    /\ commits[1].input.name = <<"rent">>
    /\ \E i \in 1..Len(commits[1].input.entries) :
          commits[1].input.entries[i].id # NoId
    /\ Len(lastOp.response[1].entries) = 2
    /\ getTransaction(database, Uuid(2)) = <<>>

----------------------------------------------------------------------------
(* C25: trial-balance conservation.  Every committed posting changes the   *)
(* sum of the balances of the DEBIT accounts minus the sum of the balances *)
(* of the CREDIT accounts by exactly its debit total minus its credit      *)
(* total: by nothing when the totals are equal, and by at most 0.001 in    *)
(* any case.  A rejected posting leaves the quantity as it was.            *)

\* the balance of an account, counted against the CREDIT accounts
signedBalance(account) ==
    IF account.direction = DEBIT THEN account.balance ELSE 0 - account.balance

RECURSIVE SumSigned(_, _)
SumSigned(accts, ids) ==
    IF ids = {} THEN 0
    ELSE LET id == CHOOSE x \in ids : TRUE
         IN signedBalance(accts[id]) + SumSigned(accts, ids \ {id})

TrialBalance(accts) == SumSigned(accts, DOMAIN accts)

----------------------------------------------------------------------------
(* The sums of createTransaction in the arithmetic of the source.  A       *)
(* number of the source is an IEEE 754 double: a sum is the exact sum      *)
(* rounded to 53 significant bits, to nearest and on a tie to the even     *)
(* significand.  The numbers here are h * 2^53 + l for a small h and a     *)
(* small l, kept as the pair of h and l: below 2^53 every such integer is  *)
(* a double, from 2^53 to 2^54 the doubles are the multiples of 2 and from *)
(* 2^54 to 2^55 the multiples of 4.                                        *)

MaxOrderEntries == 4

double(h, l) == [h |-> h, l |-> l]

\* the distance between neighbouring doubles around h * 2^53 + l
spacing(v) ==
    IF v.h <= 0 THEN 1
    ELSE IF v.h = 1 THEN (IF v.l < 0 THEN 1 ELSE 2)
    ELSE IF v.h = 2 /\ v.l < 0 THEN 2
    ELSE 4

\* the double nearest to the exact value v
roundToDouble(v) ==
    LET s == spacing(v)
        r == v.l % s
        down == v.l - r
    IN IF r = 0 THEN v
       ELSE IF 2 * r < s THEN double(v.h, down)
       ELSE IF 2 * r > s THEN double(v.h, down + s)
       ELSE IF (down \div s) % 2 = 0 THEN double(v.h, down)
       ELSE double(v.h, down + s)

\* a + b and a - b of the source
addDouble(a, b) == roundToDouble(double(a.h + b.h, a.l + b.l))
subDouble(a, b) == roundToDouble(double(a.h - b.h, a.l - b.l))

\* validateEntriesBalance: debitTotal += entry.amount over the entries in
\* their order
RECURSIVE totalDouble(_, _, _)
totalDouble(es, dir, total) ==
    IF es = <<>> THEN total
    ELSE totalDouble(Tail(es), dir,
                     IF Head(es).direction = dir
                     THEN addDouble(total, Head(es).amount) ELSE total)

\* Math.abs(debitTotal - creditTotal) > 0.001: the totals are integers, so
\* their difference is 0 or at least 1
validateEntriesBalanceDouble(es) ==
    LET debits == totalDouble(es, DEBIT, double(0, 0))
        credits == totalDouble(es, CREDIT, double(0, 0))
    IN IF subDouble(debits, credits) # double(0, 0)
       THEN UnbalancedError(debits, credits)
       ELSE NoError

\* calculateBalanceUpdates: the loop over the entries in their order
RECURSIVE balanceLoopDouble(_, _, _)
balanceLoopDouble(es, accts, balanceMap) ==
    IF es = <<>> THEN balanceMap
    ELSE LET entry == Head(es)
             account == accts[entry.account_id]
             current == currentBalance(balanceMap, entry, account)
         IN balanceLoopDouble(Tail(es), accts,
                mapSet(balanceMap, entry.account_id,
                       IF entry.direction = account.direction
                       THEN addDouble(current, entry.amount)
                       ELSE subDouble(current, entry.amount)))

\* what createTransaction does with the entries up to the commit: the
\* error of the validator, or the balances handed to the store
outcomeDouble(es, accts) ==
    IF validateEntriesBalanceDouble(es) # NoError
    THEN [error |-> validateEntriesBalanceDouble(es), updates |-> <<>>]
    ELSE [error |-> NoError, updates |-> balanceLoopDouble(es, accts, <<>>)]

\* a DEBIT account holding 2^53 and a CREDIT account holding 0
OrderAccounts ==
    [id \in AccountIds |->
        IF id = ClientId(1)
        THEN [name |-> "", balance |-> double(1, 0), direction |-> DEBIT]
        ELSE [name |-> "", balance |-> double(0, 0), direction |-> CREDIT]]

\* debit entries of 1, 2 and 2^53 on the first account, credit entries of
\* 3 and 2^53 + 2 on the second
OrderEntries ==
    {[id |-> NoId, account_id |-> ClientId(1), amount |-> a, direction |-> DEBIT] :
        a \in {double(0, 1), double(0, 2), double(1, 0)}}
    \cup
    {[id |-> NoId, account_id |-> ClientId(2), amount |-> a, direction |-> CREDIT] :
        a \in {double(0, 3), double(1, 2)}}

OrderInputs == {es \in SeqsUpTo(OrderEntries, MaxOrderEntries) : Len(es) >= 2}

\* a call of createTransaction on the entries es, before it runs and after
OrderCall(op, es, out) ==
    Handled(op, es, NoId, 0, {},
            Outcome(out.error, NoId, <<>>, FALSE, out.updates, 0, NoResponse))

InitOrder ==
    /\ accounts = OrderAccounts
    /\ transactions = <<>>
    /\ entries = <<>>
    /\ opening = NoAccounts
    /\ commits = <<>>
    /\ reads = NoReads
    /\ lastOp \in {OrderCall("order", es, [error |-> NoError, updates |-> <<>>]) :
                     es \in OrderInputs}

PostOrdered ==
    /\ lastOp.op = "order"
    /\ lastOp' = OrderCall("ordered", lastOp.input,
                           outcomeDouble(lastOp.input, accounts))
    /\ UNCHANGED <<accounts, transactions, entries, opening, commits, reads>>

NextOrder == PostOrdered

SpecOrder == InitOrder /\ [][NextOrder]_vars

\* the entries es in the order f
permuted(es, f) == [i \in 1..Len(es) |-> es[f[i]]]

\* the balance the updates give account id
updateOf(updates, id) ==
    IF mapHas(updates, id) THEN <<mapGet(updates, id)>> ELSE <<>>

----------------------------------------------------------------------------
(* C26: the order of the entries of a posting does not affect the outcome. *)
(* For every permutation of the entries of a posting, the permuted posting *)
(* is rejected as Unbalanced exactly when the posting is, and when both    *)
(* are accepted the new balance computed for every account is the same.    *)
(* The sums are rounded after every addition, so this does not hold.       *)
C26_OrderIrrelevant ==
    lastOp.op = "ordered" =>
        \A f \in Permutations(1..Len(lastOp.input)) :
            LET other == outcomeDouble(permuted(lastOp.input, f), accounts)
            IN /\ (other.error = NoError) <=> (lastOp.error = NoError)
               /\ (other.error = NoError /\ lastOp.error = NoError) =>
                     \A id \in AccountIds :
                         updateOf(other.updates, id) = updateOf(lastOp.updates, id)

----------------------------------------------------------------------------
(* C27: transaction ids are unique among the persisted transactions and    *)
(* entry ids among the persisted entries, in every reachable state.  A     *)
(* posting whose supplied transaction id is in use, or one of whose        *)
(* supplied entry ids is in use or repeated within the posting, fails and  *)
(* leaves every transaction, entry and account as it was.                  *)

\* the supplied transaction id of the posting was in use
TransactionIdInUse ==
    /\ lastOp.input.id # NoId
    /\ \E t \in Range(lastOp.before.transactions) : t.id = lastOp.input.id

\* a supplied entry id of the posting was in use, or is supplied twice
EntryIdInUse ==
    \E i \in 1..Len(lastOp.input.entries) :
        /\ lastOp.input.entries[i].id # NoId
        /\ \/ \E e \in Range(lastOp.before.entries) :
                 e.id = lastOp.input.entries[i].id
           \/ \E j \in 1..(i - 1) :
                 lastOp.input.entries[j].id = lastOp.input.entries[i].id

C27_IdsUnique ==
    /\ \A i, j \in 1..Len(transactions) :
          transactions[i].id = transactions[j].id => i = j
    /\ \A i, j \in 1..Len(entries) : entries[i].id = entries[j].id => i = j
    /\ (Posted /\ (TransactionIdInUse \/ EntryIdInUse)) =>
          /\ lastOp.status = 400
          /\ lastOp.error # NoError
          /\ NothingChanged

\* a posting that repeats a supplied entry id, under a transaction id of
\* its own, was refused by the store after its transaction row and its
\* first entry were inserted, and the rows of the earlier posting are as
\* they were
C27_Witness ==
    /\ Rejected
    /\ lastOp.error = SqliteError
    /\ lastOp.before.transactions # <<>>
    /\ NothingChanged
    /\ ~ TransactionIdInUse
    /\ lastOp.input.id # NoId
    /\ lastOp.input.entries[1].id # NoId
    /\ lastOp.input.entries[2].id = lastOp.input.entries[1].id
    /\ \A e \in Range(lastOp.before.entries) : e.id # lastOp.input.entries[1].id
    /\ lastOp.done = 2

----------------------------------------------------------------------------
(* C28: a successful posting changes no account other than those its       *)
(* entries reference.  Every account whose id appears in none of the       *)
(* entries of the posting has the id, name, balance and direction it had,  *)
(* no account appears or disappears, and every transaction and entry       *)
(* persisted before is still there, unchanged.                             *)
C28_OnlyTouchedAccountsChange ==
    Succeeded =>
        /\ DOMAIN accounts = DOMAIN lastOp.before.accounts
        /\ \A id \in DOMAIN lastOp.before.accounts \ Touched(lastOp.input.entries) :
              /\ accounts[id] = lastOp.before.accounts[id]
              /\ getAccount(accounts, id) = getAccount(lastOp.before.accounts, id)
        /\ SubSeq(transactions, 1, Len(lastOp.before.transactions))
              = lastOp.before.transactions
        /\ SubSeq(entries, 1, Len(lastOp.before.entries)) = lastOp.before.entries
        /\ Len(transactions) = Len(lastOp.before.transactions) + 1
        /\ Len(entries) = Len(lastOp.before.entries) + Len(lastOp.input.entries)

\* a second posting was committed whose entries all reference one account
\* and change its balance, while the other account, which the first posting
\* had changed, is as it was
C28_Witness ==
    /\ Succeeded
    /\ Len(lastOp.before.transactions) = 1
    /\ Cardinality(Touched(lastOp.input.entries)) = 1
    /\ \E id \in DOMAIN accounts \ Touched(lastOp.input.entries) :
          /\ accounts[id].balance # opening[id]
          /\ accounts[id] = lastOp.before.accounts[id]
    /\ \E id \in Touched(lastOp.input.entries) :
          accounts[id].balance # lastOp.before.accounts[id].balance

----------------------------------------------------------------------------
(* C29: createAccount with an id that already belongs to an account fails, *)
(* and the existing account keeps its name, its direction and its current  *)
(* balance, which may reflect committed postings; it is never reset to the *)
(* balance of the second request.                                          *)

\* the request is a createAccount under the id of an existing account
DuplicateAccount ==
    /\ lastOp.op = "createAccount"
    /\ lastOp.input.id # NoId
    /\ lastOp.input.id \in DOMAIN lastOp.before.accounts

C29_DuplicateAccountRejected ==
    DuplicateAccount =>
        /\ lastOp.status = 400
        /\ lastOp.error # NoError
        /\ lastOp.response = NoResponse
        /\ NothingChanged
        /\ getAccount(accounts, lastOp.input.id)
              = getAccount(lastOp.before.accounts, lastOp.input.id)

\* a second creation under the id of an account whose balance postings had
\* moved away from its opening balance, asking for another balance and
\* another direction, was refused and the balance stayed
C29_Witness ==
    /\ DuplicateAccount
    /\ lastOp.status = 400
    /\ Len(commits) >= 1
    /\ accounts[lastOp.input.id].balance # opening[lastOp.input.id]
    /\ lastOp.input.balance # <<>>
    /\ accounts[lastOp.input.id].balance # lastOp.input.balance[1]
    /\ opening[lastOp.input.id] # lastOp.input.balance[1]
    /\ accounts[lastOp.input.id].direction # lastOp.input.direction

----------------------------------------------------------------------------
(* C30: getAllTransactions returns exactly the committed transactions.     *)
(* Each committed transaction appears exactly once, with all of its        *)
(* entries and no entry of another transaction, and no transaction that    *)
(* was rejected or rolled back appears.                                    *)
C30_AllTransactionsAreTheCommitted ==
    LET all == getAllTransactions(database)
    IN /\ Len(all) = Len(commits)
       /\ \A k \in 1..Len(commits) :
             /\ Cardinality({i \in 1..Len(all) : all[i].id = commits[k].id}) = 1
             /\ \A i \in 1..Len(all) :
                   all[i].id = commits[k].id =>
                       /\ Len(all[i].entries) = Len(commits[k].response.entries)
                       /\ Range(all[i].entries)
                             = {asModel(commits[k].response.entries[j], commits[k].id) :
                                    j \in 1..Len(commits[k].response.entries)}
       /\ \A i \in 1..Len(all) : \E k \in 1..Len(commits) : all[i].id = commits[k].id
       /\ Rejected => all = getAllTransactions(lastOp.before)
       /\ lastOp.op = "getAllTransactions" =>
             /\ lastOp.response = all
             /\ NothingChanged

\* getAllTransactions returned the two committed transactions, each with
\* its two entries
C30_Witness ==
    /\ lastOp.op = "getAllTransactions"
    /\ Len(commits) = 2
    /\ Len(lastOp.response) = 2
    /\ lastOp.response[1].id # lastOp.response[2].id
    /\ \A i \in 1..2 : Len(lastOp.response[i].entries) = 2
    /\ Len(entries) = 4

====
